---- MODULE Spec2Model ----
(***************************************************************************)
(* Model of the conversation orchestrator of mcp_demo (src/client.py):     *)
(* MCPClient.process_query driven by MCPClient.chat_loop.                  *)
(*                                                                         *)
(* Encoding of the message history.  self.messages is a list of dicts      *)
(* {"role", "content"}.  The content is either a plain string (user query, *)
(* assistant text) or a list of block dicts.  Every content is modelled as *)
(* a sequence of block records [type, id, text]; a plain string s is the   *)
(* one-element sequence holding a block of type "str" with text s.         *)
(* Strings are TLA+ strings, the empty string is "".                       *)
(***************************************************************************)
EXTENDS Integers, Sequences, FiniteSets, TLC

\* ---------------------------------------------------------------- bounds
\* largest max_tool_calls a caller passes
MaxBudget == 3
\* largest number of content blocks in one model response
MaxBlocks == 2
\* number of queries of one chat session
MaxQueries == 2
\* a further query is read only while the history has at most this length
MaxPrior == 3
\* largest max_tool_calls of a query that follows another query of the session
MaxLaterBudget == 1
\* cap on the inference calls of one query (never reached: at most max_tool_calls)
InferCap == MaxBudget + 2

\* ---------------------------------------------------------------- inputs
Queries == {"q"}
\* lines the user may type that chat_loop takes for the sentinel
QuitLines == {"quit", "QUIT"}
\* tool catalogs the tool provider may advertise
Catalogs == {"c1", "c2"}
\* available_tools before list_tools has returned
NoCatalog == ""
Texts == {"t"}
\* text accompanying a tool_use block ("" when the block has none)
ToolTexts == {""}
\* result.content of ToolGateway.call_tool: the text of each content piece
PieceLists == {<<>>, <<"">>, <<"r">>}

NoId == 0

TextBlock(t) == [type |-> "text", id |-> NoId, text |-> t]
ToolUseBlock(i, t) == [type |-> "tool_use", id |-> i, text |-> t]

\* content blocks the model may return (response.content items), before the
\* model has given the tool_use blocks their ids
Blocks ==
  {TextBlock(t) : t \in Texts} \cup {ToolUseBlock(NoId, t) : t \in ToolTexts}

RECURSIVE SeqsUpTo(_, _)
SeqsUpTo(S, n) ==
  IF n = 0 THEN {<<>>}
  ELSE LET shorter == SeqsUpTo(S, n - 1)
       IN shorter \cup {Append(s, x) : s \in {u \in shorter : Len(u) = n - 1}, x \in S}

Responses == SeqsUpTo(Blocks, MaxBlocks)

\* the model gives every tool_use block an id it has not used before
WithIds(r, base) ==
  [i \in 1..Len(r) |->
     IF r[i].type = "tool_use" THEN ToolUseBlock(base + i, r[i].text) ELSE r[i]]

\* ------------------------------------------------------- pure functions
\* " ".join([content.text for content in result.content])
RECURSIVE Join(_)
Join(pieces) ==
  IF Len(pieces) = 0 THEN ""
  ELSE IF Len(pieces) = 1 THEN pieces[1]
  ELSE pieces[1] \o " " \o Join(Tail(pieces))

\* {"role": "user", "content": query}
QueryMessage(q) ==
  [role |-> "user", content |-> <<[type |-> "str", id |-> NoId, text |-> q]>>]

TextMessage_AsUser(t) ==
  [role |-> "user", content |-> <<[type |-> "str", id |-> NoId, text |-> t]>>]

\* {"role": "assistant", "content": content.text}
TextMessage(t) ==
  [role |-> "assistant", content |-> <<[type |-> "str", id |-> NoId, text |-> t]>>]

\* current_content: the optional text block, then the tool_use block
ToolUseMessage(b) ==
  [role |-> "assistant",
   content |-> (IF b.text # "" THEN <<[type |-> "text", id |-> NoId, text |-> b.text]>>
                ELSE <<>>)
               \o <<[type |-> "tool_use", id |-> b.id, text |-> ""]>>]

\* the payload of the tool_result block: the joined result, or the placeholder
ResultPayload(result_content) ==
  IF result_content # "" THEN result_content ELSE "No response from tool"

ToolResultMessage_AsAssistant(id, result_content) ==
  [role |-> "assistant",
   content |-> <<[type |-> "tool_result", id |-> id,
                  text |-> ResultPayload(result_content)]>>]

ToolResultMessage_NoId(id, result_content) ==
  [role |-> "user",
   content |-> <<[type |-> "tool_result", id |-> NoId,
                  text |-> ResultPayload(result_content)]>>]

\* {"role": "user", "content": [{"type": "tool_result", ...}]}
ToolResultMessage(id, result_content) ==
  [role |-> "user",
   content |-> <<[type |-> "tool_result", id |-> id,
                  text |-> ResultPayload(result_content)]>>]

LoopCond_Or(d, tc, max) == ~d \/ tc < max

LoopCond_Le(d, tc, max) == ~d /\ tc <= max

\* while not done and tool_calls < max_tool_calls
LoopCond(d, tc, max) == ~d /\ tc < max

DoneAtRoundStart_Unset == FALSE

\* done = True, before the blocks of a response are processed
DoneAtRoundStart == TRUE

DoneOnToolUse_Kept == TRUE

\* done = False, on a tool_use block
DoneOnToolUse == FALSE

CountAfterCall_NoInc(tc) == tc

CountAfterCall_Twice(tc) == tc + 2

\* tool_calls += 1
CountAfterCall(tc) == tc + 1

InitialToolCalls_Session(earlier) == earlier

\* tool_calls = 0, whatever the earlier queries of the session counted
InitialToolCalls(earlier) == 0

DoneOnText_Set(d) == TRUE

\* the text branch leaves done as it is
DoneOnText(d) == d

AppendMessage_Front(msgs, m) == <<m>> \o msgs

\* self.messages.append(m)
AppendMessage(msgs, m) == Append(msgs, m)

\* query.lower() == "quit", on the lines of QuitLines and Queries
Lower(line) == IF line = "QUIT" THEN "quit" ELSE line

IsQuit(line) == Lower(line) = "quit"

\* available_tools: name, description and input_schema of every tool listed
AvailableTools(catalog) == catalog

InferTools_First(available) == "c1"

\* tools=available_tools, the catalog given to the inference call
InferTools(available) == available

\* done after the result was appended: True on an empty joined result
DoneAfterResult(d, result_content) == IF result_content # "" THEN d ELSE TRUE

\* ---------------------------------------------------------------- state
VARIABLES
  pc,             \* position of the client: chat_loop / process_query
  messages,       \* self.messages
  query,          \* parameter query of the running process_query
  max_tool_calls, \* parameter max_tool_calls of the running process_query
  available_tools,\* local available_tools
  done,           \* local done
  tool_calls,     \* local tool_calls
  response,       \* response.content of the last inference call
  idx,            \* position of the for loop in response.content
  tool_use_id,    \* local tool_use_id
  queries,        \* number of queries read by chat_loop
  nextId,         \* the model: ids handed out so far
  outcome,        \* how the last process_query ended
  prior,          \* history: self.messages when process_query was entered
  inferCalls,     \* history: inference calls of this process_query
  toolsIssued,    \* history: session.call_tool calls of this process_query
  blocksDone,     \* history: content blocks this process_query has begun
  rounds,         \* history: the responses of this process_query
  results,        \* history: the joined results of this process_query
  emptySnap,      \* history: the counters when a joined result was empty
  listCalls,      \* history: session.list_tools calls of the chat session
  fetched,        \* history: the catalog list_tools returned to this query
  toolsPassed,    \* history: the catalogs given to the inference calls
  issuedIds,      \* history: ids of the invocations started, in order
  inFlight,       \* history: session.call_tool calls not yet completed
  spent,          \* history: tool calls the earlier queries have counted
  tool,           \* server: the tool handler that is running
  spc,            \* server: position of the tool handler
  fpc,            \* server: position of get_response
  retries,        \* server: local retries of get_response
  attempts,       \* history: requests get_response has sent
  target,         \* upstream: behaviour of the url get_response is fetching
  fresult,        \* server: value get_response returned
  session_response, \* server: local session_response of get_sessions
  sidx,           \* server: position of the for loop of get_sessions
  sessions,       \* server: local sessions of get_sessions
  ret,            \* server: value the tool handler returned
  ptarget,        \* history: the target of the primary fetch
  mtargets        \* history: the targets of the meeting fetches, in order

client == <<pc, messages, query, max_tool_calls, available_tools, done,
            tool_calls, response, idx, tool_use_id, queries, nextId, outcome,
            prior, inferCalls, toolsIssued, blocksDone, rounds, results,
            emptySnap, listCalls, fetched, toolsPassed, issuedIds, inFlight,
            spent>>

server == <<tool, spc, fpc, retries, attempts, target, fresult,
            session_response, sidx, sessions, ret, ptarget, mtargets>>

vars == <<client, server>>

locals == <<available_tools, done, tool_calls, response, idx, tool_use_id>>
params == <<query, max_tool_calls>>
hist == <<prior, inferCalls, toolsIssued, blocksDone, rounds, results, emptySnap,
          listCalls, fetched, toolsPassed, issuedIds, inFlight, spent>>

NoSnap == [set |-> FALSE, at |-> 0, issued |-> 0, infer |-> 0, blocks |-> 0]

InQuery == {"list_tools", "loop", "for", "call_tool"}

\* the client after MCPClient.__init__, at the prompt of chat_loop
ClientStart ==
  /\ pc = "idle"
  /\ messages = <<>>
  /\ query = ""
  /\ max_tool_calls = 0
  /\ available_tools = NoCatalog
  /\ done = FALSE
  /\ tool_calls = 0
  /\ response = <<>>
  /\ idx = 1
  /\ tool_use_id = NoId
  /\ queries = 0
  /\ nextId = 0
  /\ outcome = "none"
  /\ prior = <<>>
  /\ inferCalls = 0
  /\ toolsIssued = 0
  /\ blocksDone = 0
  /\ rounds = <<>>
  /\ results = <<>>
  /\ emptySnap = NoSnap
  /\ listCalls = 0
  /\ fetched = NoCatalog
  /\ toolsPassed = <<>>
  /\ issuedIds = <<>>
  /\ inFlight = 0
  /\ spent = 0

Raised_EndsLoop ==
  /\ pc' = "quit"
  /\ outcome' = "raised"

\* an exception leaves process_query; chat_loop catches and reports it
Raised ==
  /\ pc' = "idle"
  /\ outcome' = "raised"

\* chat_loop reads a query and calls process_query, which appends it
StartQuery ==
  /\ pc = "idle"
  /\ queries < MaxQueries
  /\ Len(messages) <= MaxPrior
  /\ \E q \in Queries, m \in 0..(IF queries = 0 THEN MaxBudget ELSE MaxLaterBudget) :
       /\ ~IsQuit(q)
       /\ query' = q
       /\ max_tool_calls' = m
       /\ messages' = AppendMessage(messages, QueryMessage(q))
  /\ prior' = messages
  /\ queries' = queries + 1
  /\ pc' = "list_tools"
  /\ outcome' = "running"
  /\ inferCalls' = 0
  /\ toolsIssued' = 0
  /\ blocksDone' = 0
  /\ rounds' = <<>>
  /\ results' = <<>>
  /\ emptySnap' = NoSnap
  /\ fetched' = NoCatalog
  /\ toolsPassed' = <<>>
  /\ issuedIds' = <<>>
  /\ inFlight' = 0
  /\ spent' = spent + tool_calls
  \* a new call frame: the locals are not bound yet
  /\ available_tools' = NoCatalog
  /\ done' = FALSE
  /\ tool_calls' = 0
  /\ response' = <<>>
  /\ idx' = 1
  /\ tool_use_id' = NoId
  /\ UNCHANGED <<nextId, listCalls, server>>

\* chat_loop reads the sentinel "quit"
Quit ==
  /\ pc = "idle"
  /\ \E line \in QuitLines \cup Queries : IsQuit(line)
  /\ pc' = "quit"
  /\ UNCHANGED <<messages, params, locals, queries, nextId, outcome, hist, server>>

\* response = await self.session.list_tools(); done = False; tool_calls = 0
ListTools ==
  /\ pc = "list_tools"
  /\ listCalls' = listCalls + 1
  /\ \/ \E c \in Catalogs :
          /\ available_tools' = AvailableTools(c)
          /\ fetched' = c
          /\ done' = FALSE
          /\ tool_calls' = InitialToolCalls(spent)
          /\ pc' = "loop"
          /\ UNCHANGED outcome
     \/ /\ Raised
        /\ UNCHANGED <<available_tools, fetched, done, tool_calls>>
  /\ UNCHANGED <<messages, params, response, idx, tool_use_id, queries, nextId,
                 prior, inferCalls, toolsIssued, blocksDone, rounds, results,
                 emptySnap, toolsPassed, issuedIds, inFlight, spent, server>>

\* the while condition holds: one inference call
Infer ==
  /\ pc = "loop"
  /\ LoopCond(done, tool_calls, max_tool_calls)
  /\ inferCalls < InferCap
  /\ inferCalls' = inferCalls + 1
  /\ toolsPassed' = Append(toolsPassed, InferTools(available_tools))
  /\ \/ \E r \in Responses :
          /\ response' = WithIds(r, nextId)
          /\ rounds' = Append(rounds, WithIds(r, nextId))
          /\ nextId' = nextId + Len(r)
          /\ idx' = 1
          /\ done' = DoneAtRoundStart
          /\ pc' = "for"
          /\ UNCHANGED outcome
     \/ /\ Raised
        /\ UNCHANGED <<response, rounds, idx, done, nextId>>
  /\ UNCHANGED <<messages, params, available_tools, tool_calls, tool_use_id,
                 queries, prior, toolsIssued, blocksDone, results, emptySnap,
                 listCalls, fetched, issuedIds, inFlight, spent, server>>

\* the while condition fails: process_query returns
LoopExit ==
  /\ pc = "loop"
  /\ ~LoopCond(done, tool_calls, max_tool_calls)
  /\ pc' = "idle"
  /\ outcome' = "returned"
  /\ UNCHANGED <<messages, params, locals, queries, nextId, hist, server>>

\* the for loop has consumed response.content
ForEnd ==
  /\ pc = "for"
  /\ idx > Len(response)
  /\ pc' = "loop"
  /\ UNCHANGED <<messages, params, locals, queries, nextId, outcome, hist, server>>

\* content.type == "text"
ProcessText ==
  /\ pc = "for"
  /\ idx <= Len(response)
  /\ response[idx].type = "text"
  /\ messages' = AppendMessage(messages, TextMessage(response[idx].text))
  /\ done' = DoneOnText(done)
  /\ idx' = idx + 1
  /\ blocksDone' = blocksDone + 1
  /\ UNCHANGED <<pc, params, available_tools, tool_calls, response, tool_use_id,
                 queries, nextId, outcome, prior, inferCalls, toolsIssued, rounds,
                 results, emptySnap, listCalls, fetched, toolsPassed, issuedIds,
                 inFlight, spent, server>>

\* content.type == "tool_use", up to the call of session.call_tool
ProcessToolUse ==
  /\ pc = "for"
  /\ idx <= Len(response)
  /\ response[idx].type = "tool_use"
  /\ done' = DoneOnToolUse
  /\ tool_use_id' = response[idx].id
  /\ messages' = AppendMessage(messages, ToolUseMessage(response[idx]))
  /\ toolsIssued' = toolsIssued + 1
  /\ issuedIds' = Append(issuedIds, response[idx].id)
  /\ inFlight' = inFlight + 1
  /\ blocksDone' = blocksDone + 1
  /\ pc' = "call_tool"
  /\ UNCHANGED <<params, available_tools, tool_calls, response, idx, queries,
                 nextId, outcome, prior, inferCalls, rounds, results, emptySnap,
                 listCalls, fetched, toolsPassed, spent, server>>

\* session.call_tool returns: join, count, append the tool_result
CallToolReturn ==
  /\ pc = "call_tool"
  /\ \E pieces \in PieceLists :
       LET result_content == Join(pieces) IN
         /\ tool_calls' = CountAfterCall(tool_calls)
         /\ messages' = AppendMessage(messages, ToolResultMessage(tool_use_id, result_content))
         /\ done' = DoneAfterResult(done, result_content)
         /\ results' = Append(results, result_content)
         /\ emptySnap' = IF result_content = "" /\ ~emptySnap.set
                         THEN [set |-> TRUE, at |-> Len(messages) + 1,
                               issued |-> toolsIssued,
                               infer |-> inferCalls, blocks |-> blocksDone]
                         ELSE emptySnap
  /\ inFlight' = inFlight - 1
  /\ idx' = idx + 1
  /\ pc' = "for"
  /\ UNCHANGED <<params, available_tools, response, tool_use_id, queries, nextId,
                 outcome, prior, inferCalls, toolsIssued, blocksDone, rounds,
                 listCalls, fetched, toolsPassed, issuedIds, spent, server>>

\* session.call_tool (or reading the text of a result piece) raises
CallToolRaise ==
  /\ pc = "call_tool"
  /\ Raised
  /\ inFlight' = inFlight - 1
  /\ UNCHANGED <<messages, params, locals, queries, nextId, prior, inferCalls,
                 toolsIssued, blocksDone, rounds, results, emptySnap, listCalls,
                 fetched, toolsPassed, issuedIds, spent, server>>

\* ------------------------------------------------ tool provider (server)
\* src/openf1_utils.py get_response and the tool handlers of
\* src/stdio_server.py.  A value returned by get_response is the record
\* [present, data]: None is [present |-> FALSE, data |-> <<>>], a decoded
\* JSON list l is [present |-> TRUE, data |-> l].

\* max_retries = 5
MaxRetries == 5
\* largest number of items in a JSON list the upstream API returns
MaxItems == 2

Tools == {"get_sessions", "get_drivers", "get_laps", "get_track_conditions"}
\* items of the list the primary url returns (for get_sessions: meeting keys)
Items == {1, 2}
PrimaryPayloads == SeqsUpTo(Items, MaxItems)
\* lists the meetings url returns
MeetingPayloads == {<<>>, <<9>>}
\* a target fails this many requests before it answers
FailCounts == 0..(MaxRetries + 1)
\* what fails in a request: client.get, raise_for_status, response.json
FailKinds == {"network", "status", "decode"}

None == [present |-> FALSE, data |-> <<>>]
Json(l) == [present |-> TRUE, data |-> l]
NoTarget == [fails |-> 0, payload |-> <<>>]

\* while retries < max_retries
WhileRetries(r) == r < MaxRetries

NextRetries_Two(r) == r + 2

\* retries += 1
NextRetries(r) == r + 1

Exhausted_Early(r) == r >= MaxRetries - 1

\* if retries == max_retries
Exhausted(r) == r = MaxRetries

\* except Exception: every failure of a request is an Exception
Caught(kind) == kind \in FailKinds

IsNone_Never(r) == FALSE

\* <response> is None
IsNone(r) == ~r.present

\* Session(**{**session, **meeting_response[0]})
SessionModel(s, m) == [model |-> "Session", item |-> s, meeting |-> m]

\* Driver(**driver), Lap(**lap_data), TrackConditions(**track_condition)
ItemModel(t, x) ==
  [model |-> (IF t = "get_drivers" THEN "Driver"
              ELSE IF t = "get_laps" THEN "Lap" ELSE "TrackConditions"),
   item |-> x, meeting |-> 0]

\* the list comprehension / loop over the primary response
ItemModels(t, l) == [i \in 1..Len(l) |-> ItemModel(t, l[i])]

\* the tool provider before a tool is called
ServerStart ==
  /\ tool = "none"
  /\ spc = "idle"
  /\ fpc = "off"
  /\ retries = 0
  /\ attempts = 0
  /\ target = NoTarget
  /\ fresult = None
  /\ session_response = <<>>
  /\ sidx = 1
  /\ sessions = <<>>
  /\ ret = <<>>
  /\ ptarget = NoTarget
  /\ mtargets = <<>>

\* get_response(url) is called: max_retries = 5; retries = 0
StartFetch(tg) ==
  /\ target' = tg
  /\ fpc' = "while"
  /\ retries' = 0
  /\ attempts' = 0
  /\ fresult' = None

\* a tool handler is called and awaits get_response on its primary url
ToolCall ==
  /\ spc = "idle"
  /\ \E t \in Tools, tg \in [fails : FailCounts, payload : PrimaryPayloads] :
       /\ tool' = t
       /\ StartFetch(tg)
       /\ ptarget' = tg
  /\ spc' = "primary"
  /\ UNCHANGED <<session_response, sidx, sessions, ret, mtargets, client>>

\* one pass of the while loop of get_response: one request
FetchAttempt ==
  /\ fpc = "while"
  /\ WhileRetries(retries)
  /\ attempts' = attempts + 1
  /\ IF attempts + 1 > target.fails
       THEN \* return response.json()
            /\ fresult' = Json(target.payload)
            /\ fpc' = "done"
            /\ UNCHANGED retries
       ELSE \E kind \in FailKinds :
              IF ~Caught(kind)
                THEN /\ fpc' = "raised"
                     /\ UNCHANGED <<retries, fresult>>
                ELSE /\ retries' = NextRetries(retries)
                     /\ IF Exhausted(retries')
                          THEN fresult' = None /\ fpc' = "done"
                          ELSE IF WhileRetries(retries')
                            THEN UNCHANGED <<fresult, fpc>>
                            \* the loop ends: the function returns None
                            ELSE fresult' = None /\ fpc' = "done"
  /\ UNCHANGED <<tool, spc, target, session_response, sidx, sessions, ret,
                 ptarget, mtargets, client>>

\* the primary get_response has returned (or raised) to the tool handler
PrimaryDone ==
  /\ spc = "primary"
  /\ fpc \in {"done", "raised"}
  /\ fpc' = "off"
  /\ IF fpc = "raised"
       THEN spc' = "raised" /\ UNCHANGED <<session_response, sidx, sessions, ret>>
     ELSE IF IsNone(fresult)
       THEN spc' = "returned" /\ ret' = <<>>
            /\ UNCHANGED <<session_response, sidx, sessions>>
     ELSE IF ~fresult.present
       \* iterating None raises TypeError
       THEN spc' = "raised" /\ UNCHANGED <<session_response, sidx, sessions, ret>>
     ELSE IF tool = "get_sessions"
       THEN /\ session_response' = fresult.data
            /\ sessions' = <<>>
            /\ sidx' = 1
            /\ spc' = "for"
            /\ UNCHANGED ret
     ELSE /\ ret' = ItemModels(tool, fresult.data)
          /\ spc' = "returned"
          /\ UNCHANGED <<session_response, sidx, sessions>>
  /\ UNCHANGED <<tool, retries, attempts, target, fresult, ptarget, mtargets, client>>

\* get_sessions: the next session, get_response on its meetings url
SessionsNext ==
  /\ spc = "for"
  /\ sidx <= Len(session_response)
  /\ \E tg \in [fails : FailCounts, payload : MeetingPayloads] :
       /\ StartFetch(tg)
       /\ mtargets' = Append(mtargets, tg)
  /\ spc' = "meeting"
  /\ UNCHANGED <<tool, session_response, sidx, sessions, ret, ptarget, client>>

\* get_sessions: the meeting get_response has returned (or raised)
MeetingDone ==
  /\ spc = "meeting"
  /\ fpc \in {"done", "raised"}
  /\ fpc' = "off"
  /\ IF fpc = "raised"
       THEN spc' = "raised" /\ UNCHANGED <<sidx, sessions>>
     ELSE IF IsNone(fresult)
       \* continue
       THEN spc' = "for" /\ sidx' = sidx + 1 /\ UNCHANGED sessions
     ELSE IF ~fresult.present \/ Len(fresult.data) = 0
       \* meeting_response[0] raises TypeError / IndexError
       THEN spc' = "raised" /\ UNCHANGED <<sidx, sessions>>
     ELSE /\ sessions' = Append(sessions,
                                SessionModel(session_response[sidx], fresult.data[1]))
          /\ sidx' = sidx + 1
          /\ spc' = "for"
  /\ UNCHANGED <<tool, retries, attempts, target, fresult, session_response, ret,
                 ptarget, mtargets, client>>

\* get_sessions: the for loop is over, return sessions
SessionsEnd ==
  /\ spc = "for"
  /\ sidx > Len(session_response)
  /\ ret' = sessions
  /\ spc' = "returned"
  /\ UNCHANGED <<tool, fpc, retries, attempts, target, fresult, session_response,
                 sidx, sessions, ptarget, mtargets, client>>

ServerNext ==
  \/ ToolCall
  \/ FetchAttempt
  \/ PrimaryDone
  \/ SessionsNext
  \/ MeetingDone
  \/ SessionsEnd

Init == ClientStart /\ ServerStart

ServerSpec == Init /\ [][ServerNext]_vars

Next ==
  \/ StartQuery
  \/ Quit
  \/ ListTools
  \/ Infer
  \/ LoopExit
  \/ ForEnd
  \/ ProcessText
  \/ ProcessToolUse
  \/ CallToolReturn
  \/ CallToolRaise

Spec == Init /\ [][Next]_vars

\* the steps of a running process_query: the event loop runs the coroutine on
QuerySteps ==
  ListTools \/ Infer \/ LoopExit \/ ForEnd \/ ProcessText \/ ProcessToolUse
    \/ CallToolReturn \/ CallToolRaise

FairSpec == Spec /\ WF_vars(QuerySteps)

TypeOK ==
  /\ pc \in {"idle", "quit"} \cup InQuery
  /\ tool_calls \in Nat
  /\ done \in BOOLEAN
  /\ idx \in 1..(MaxBlocks + 1)
  /\ outcome \in {"none", "running", "returned", "raised"}

\* ------------------------------------------------------ history helpers
HasToolUse(bs) == \E j \in 1..Len(bs) : bs[j].type = "tool_use"

\* the message holds exactly one block, a tool_result for id
IsResultFor(m, id) ==
  /\ m.role = "user"
  /\ Len(m.content) = 1
  /\ m.content[1].type = "tool_result"
  /\ m.content[1].id = id

\* every tool_use of the history is answered by the very next message
Paired(msgs) ==
  \A i \in 1..Len(msgs) : \A j \in 1..Len(msgs[i].content) :
    msgs[i].content[j].type = "tool_use" =>
      /\ msgs[i].role = "assistant"
      /\ i < Len(msgs)
      /\ IsResultFor(msgs[i + 1], msgs[i].content[j].id)

LastRound == rounds[Len(rounds)]

\* the query ran k rounds of one tool_use each, every result non-empty, and
\* then a round of one text block
Chain(k) ==
  /\ Len(rounds) = k + 1
  /\ \A j \in 1..k : Len(rounds[j]) = 1 /\ rounds[j][1].type = "tool_use"
  /\ Len(rounds[k + 1]) = 1 /\ rounds[k + 1][1].type = "text"
  /\ Len(results) = k
  /\ \A j \in 1..k : results[j] # ""

\* the messages such a query is expected to append after the user query
ChainMessages(k) ==
  [n \in 1..(2 * k + 1) |->
     IF n = 2 * k + 1
       THEN [role |-> "assistant",
             content |-> <<[type |-> "str", id |-> NoId, text |-> rounds[k + 1][1].text]>>]
     ELSE IF n % 2 = 1
       THEN [role |-> "assistant",
             content |-> <<[type |-> "tool_use", id |-> rounds[(n + 1) \div 2][1].id,
                            text |-> ""]>>]
     ELSE [role |-> "user",
           content |-> <<[type |-> "tool_result", id |-> rounds[n \div 2][1].id,
                          text |-> results[n \div 2]]>>]]

UserQuery ==
  [role |-> "user", content |-> <<[type |-> "str", id |-> NoId, text |-> query]>>]

\* ---------------------------------------------------------------- claims

\* C1: the tool-call counter of a query never exceeds max_tool_calls, and no
\* tool is invoked through the gateway once the counter has reached it.
C1_CounterWithinBudget ==
  /\ tool_calls <= max_tool_calls
  /\ pc = "call_tool" => tool_calls < max_tool_calls

\* C2: between inference calls and after every process_query call, every
\* assistant message carrying a tool invocation is followed, as the very next
\* message, by one user message carrying the tool result with the same id.
C2_InvocationAnswered ==
  pc \in {"idle", "quit", "loop"} => Paired(messages)

\* C3: one process_query call makes at most max_tool_calls + 1 inference calls.
C3_InferenceBound == inferCalls <= max_tool_calls + 1

C3_Witness ==
  /\ outcome = "returned"
  /\ max_tool_calls >= 2
  /\ inferCalls = max_tool_calls

\* C4: a running process_query eventually ends, also when every response of
\* the model holds a tool invocation.
C4_Terminates == (pc \in InQuery) ~> (pc = "idle")

C4_Witness ==
  /\ outcome = "returned"
  /\ max_tool_calls >= 2
  /\ Len(rounds) = max_tool_calls
  /\ \A j \in 1..Len(rounds) : HasToolUse(rounds[j])

\* C5: an empty joined result is answered with the placeholder payload and
\* ends the round at once: after it no block is processed, no tool is invoked
\* and no inference call is made in that process_query call.
C5_EmptyResultEndsRound ==
  emptySnap.set =>
    /\ messages[emptySnap.at].content[1].text = "No response from tool"
    /\ toolsIssued = emptySnap.issued
    /\ inferCalls = emptySnap.infer
    /\ blocksDone = emptySnap.blocks

\* C6 as stated: process_query returns only after a round without a tool
\* invocation or with the counter at max_tool_calls.
C6_ReturnTextOrBudget ==
  outcome = "returned" =>
    \/ Len(rounds) > 0 /\ ~HasToolUse(LastRound)
    \/ tool_calls >= max_tool_calls

\* C6 amended: process_query returns only after a round without a tool
\* invocation, or with the counter at max_tool_calls, or after the last tool
\* invocation of the last round returned an empty joined result.
C6_ReturnTextBudgetOrEmpty ==
  outcome = "returned" =>
    \/ Len(rounds) > 0 /\ ~HasToolUse(LastRound)
    \/ tool_calls >= max_tool_calls
    \/ /\ Len(rounds) > 0 /\ HasToolUse(LastRound)
       /\ Len(results) > 0 /\ results[Len(results)] = ""

C6_Witness ==
  /\ outcome = "returned"
  /\ tool_calls < max_tool_calls
  /\ Len(rounds) > 0 /\ HasToolUse(LastRound)
  /\ Len(results) > 0 /\ results[Len(results)] = ""

\* C7: when the first response of a query holds no tool invocation, the query
\* makes exactly one inference call, invokes no tool and keeps the counter at 0.
C7_TextFirstResponse ==
  (outcome \in {"running", "returned"} /\ Len(rounds) > 0 /\ ~HasToolUse(rounds[1])) =>
    /\ inferCalls = 1
    /\ toolsIssued = 0
    /\ tool_calls = 0

C7_Witness ==
  /\ outcome = "returned"
  /\ max_tool_calls >= 2
  /\ Len(rounds) = 1
  /\ Len(rounds[1]) = 2
  /\ ~HasToolUse(rounds[1])

\* C8: with max_tool_calls = 0 no tool is executed and the history gains
\* nothing but the user query.
C8_ZeroBudget ==
  (outcome # "none" /\ max_tool_calls = 0) =>
    /\ toolsIssued = 0
    /\ messages = prior \o <<UserQuery>>

C8_Witness ==
  /\ outcome = "returned"
  /\ max_tool_calls = 0
  /\ prior # <<>>

\* C9: k rounds of one tool invocation each (results non-empty, k below
\* max_tool_calls) followed by one text block: k + 1 inference calls, counter
\* k, and the history gains the query, each invocation followed by its
\* result in invocation order, and the final text.
C9_ToolChain ==
  \A k \in 0..(MaxBudget - 1) :
    (outcome = "returned" /\ k < max_tool_calls /\ Chain(k)) =>
      /\ inferCalls = k + 1
      /\ tool_calls = k
      /\ messages = prior \o <<UserQuery>> \o ChainMessages(k)

C9_Witness ==
  /\ outcome = "returned"
  /\ max_tool_calls > 2
  /\ Chain(2)

\* C10: a query answered with exactly one text block makes one inference
\* call, invokes no tool, and leaves the history as the prior history
\* followed by the user query and one assistant message with that text.
C10_SingleText ==
  (outcome = "returned" /\ Len(rounds) > 0 /\ Len(rounds[1]) = 1
     /\ rounds[1][1].type = "text") =>
    /\ inferCalls = 1
    /\ toolsIssued = 0
    /\ messages = prior \o
         <<UserQuery,
           [role |-> "assistant",
            content |-> <<[type |-> "str", id |-> NoId, text |-> rounds[1][1].text]>>]>>

C10_Witness ==
  /\ outcome = "returned"
  /\ prior # <<>>
  /\ Len(rounds) = 1 /\ Len(rounds[1]) = 1
  /\ rounds[1][1].type = "text"

\* ------------------------------------------------ helpers, second part
IsPrefix(a, b) == Len(a) <= Len(b) /\ SubSeq(b, 1, Len(a)) = a

\* the ids of the tool_use blocks of a response, in order
RECURSIVE ToolIdsOf(_)
ToolIdsOf(bs) ==
  IF Len(bs) = 0 THEN <<>>
  ELSE (IF bs[1].type = "tool_use" THEN <<bs[1].id>> ELSE <<>>) \o ToolIdsOf(Tail(bs))

\* the ids of the tool_use blocks of the responses rs, in order
RECURSIVE FlatToolIds(_)
FlatToolIds(rs) ==
  IF Len(rs) = 0 THEN <<>> ELSE ToolIdsOf(rs[1]) \o FlatToolIds(Tail(rs))

\* the history holds the tool_result of invocation id
Answered(id) == \E n \in 1..Len(messages) : IsResultFor(messages[n], id)

\* every tool result of the last round, read after the round, is non-empty
LastRoundNonEmpty ==
  LET n == Len(ToolIdsOf(LastRound)) IN
    /\ n <= Len(results)
    /\ \A i \in (Len(results) - n + 1)..Len(results) : results[i] # ""

\* a url whose every request within max_retries fails
Absent(tg) == tg.fails >= MaxRetries

\* the sessions get_sessions is expected to return for sessions i.. of the
\* primary payload: those whose meeting fetch was not absent
RECURSIVE KeptSessions(_)
KeptSessions(i) ==
  IF i > Len(ptarget.payload) \/ i > Len(mtargets) THEN <<>>
  ELSE (IF Absent(mtargets[i]) THEN <<>>
        ELSE <<[model |-> "Session", item |-> ptarget.payload[i],
                meeting |-> mtargets[i].payload[1]]>>)
       \o KeptSessions(i + 1)

\* ------------------------------------------------- claims, second part

\* C11: on a target that fails k < max_retries requests and then answers,
\* get_response sends exactly k + 1 requests and returns the answer.
C11_RetryThenSuccess ==
  /\ fpc # "raised"
  /\ (fpc = "done" /\ target.fails < MaxRetries) =>
       /\ attempts = target.fails + 1
       /\ fresult = [present |-> TRUE, data |-> target.payload]

C11_Witness ==
  /\ fpc = "done"
  /\ target.fails = MaxRetries - 1
  /\ target.payload # <<>>
  /\ fresult.present

\* C12: on a target whose every request fails, get_response sends exactly
\* max_retries requests and returns None; no exception leaves it and no
\* request follows the last failure.
C12_RetriesExhausted ==
  /\ fpc # "raised"
  /\ attempts <= MaxRetries
  /\ (fpc = "done" /\ target.fails >= MaxRetries) =>
       /\ attempts = MaxRetries
       /\ fresult = [present |-> FALSE, data |-> <<>>]

C12_Witness ==
  /\ fpc = "done"
  /\ target.fails > MaxRetries
  /\ attempts = MaxRetries
  /\ ~fresult.present

\* C13: a tool whose primary fetch is absent returns the empty list and does
\* not raise; get_sessions returns exactly the sessions whose meeting fetch
\* was not absent, in order, and an absent fetch never makes it raise.
C13_AbsentIsNoData ==
  /\ (spc \in {"returned", "raised"} /\ Absent(ptarget)) =>
       (spc = "returned" /\ ret = <<>>)
  /\ (spc = "returned" /\ tool = "get_sessions" /\ ~Absent(ptarget)) =>
       ret = KeptSessions(1)
  /\ spc = "raised" =>
       \E i \in 1..Len(mtargets) : ~Absent(mtargets[i]) /\ mtargets[i].payload = <<>>

C13_Witness ==
  /\ spc = "returned"
  /\ tool = "get_sessions"
  /\ Len(ptarget.payload) = 2
  /\ Len(mtargets) = 2
  /\ Absent(mtargets[1])
  /\ ~Absent(mtargets[2])
  /\ Len(ret) = 1

\* C14: every step leaves the history before the step as a prefix of the
\* history after it.
C14_AppendOnly == [][IsPrefix(messages, messages')]_vars

C14_Witness ==
  /\ queries = 2
  /\ outcome = "raised"
  /\ Len(prior) >= 2
  /\ Len(messages) > Len(prior) + 1

\* C15 as stated: the counter is the number of tool invocations of the query
\* whose joined result was non-empty.
C15_CountsNonEmptyResults ==
  tool_calls = Cardinality({i \in 1..Len(results) : results[i] # ""})

\* C15 amended: the counter is the number of tool invocations of the query
\* that have returned, whether the joined result was empty or not.
C15_CountsEveryResult == tool_calls = Len(results)

C15_Witness ==
  /\ tool_calls = 2
  /\ Len(results) = 2
  /\ results[1] = ""

\* C16: every process_query calls list_tools exactly once, before its first
\* inference call, and gives every inference call the catalog it got.
C16_CatalogOncePerQuery ==
  /\ listCalls = queries - (IF pc = "list_tools" THEN 1 ELSE 0)
  /\ inferCalls > 0 => fetched # NoCatalog
  /\ Len(toolsPassed) = inferCalls
  /\ \A i \in 1..Len(toolsPassed) : toolsPassed[i] = fetched

C16_Witness ==
  /\ queries = 2
  /\ listCalls = 2
  /\ fetched = "c2"
  /\ Len(toolsPassed) = 1
  /\ outcome = "returned"

\* C17: at most one tool invocation is in flight, invocations start in the
\* order of the tool_use blocks of the responses, and an invocation starts
\* only after the results of all earlier ones are in the history.
C17_SequentialTools ==
  /\ inFlight <= 1
  /\ IsPrefix(issuedIds, FlatToolIds(rounds))
  /\ \A i \in 1..(Len(issuedIds) - 1) : Answered(issuedIds[i])

C17_Witness ==
  /\ pc = "call_tool"
  /\ Len(rounds) = 1
  /\ Len(issuedIds) = 2

\* C18: a query reaches its loop with the counter at 0 and a tool call
\* available whenever max_tool_calls > 0, whatever the earlier queries
\* counted; the history of the earlier queries is still there.
C18_CounterPerQuery ==
  /\ (pc = "loop" /\ inferCalls = 0) =>
       /\ tool_calls = 0
       /\ max_tool_calls > 0 => (~done /\ tool_calls < max_tool_calls)
  /\ outcome # "none" => IsPrefix(prior \o <<UserQuery>>, messages)

C18_Witness ==
  /\ pc = "loop"
  /\ inferCalls = 0
  /\ queries = 2
  /\ max_tool_calls > 0
  /\ spent >= max_tool_calls

\* C19: an exception of process_query takes chat_loop back to its prompt;
\* the loop ends only from the prompt, on the sentinel.
C19_FailureKeepsSession ==
  [][/\ (pc # "quit" /\ pc' = "quit") => pc = "idle"
     /\ (outcome # "raised" /\ outcome' = "raised") => pc' = "idle"]_vars

C19_Witness ==
  /\ queries = 2
  /\ outcome = "returned"
  /\ Len(prior) = 2
  /\ HasToolUse(prior[2].content)
  /\ inferCalls > 0

\* C20: after a round with a tool invocation, all results non-empty and the
\* counter below max_tool_calls, the loop goes on to another inference call,
\* wherever the text blocks of the round are; process_query returns only
\* after a round without invocation, an empty result, or a spent budget.
C20_ToolRoundContinues ==
  /\ (pc = "loop" /\ Len(rounds) > 0 /\ HasToolUse(LastRound)
        /\ LastRoundNonEmpty /\ tool_calls < max_tool_calls) => ~done
  /\ outcome = "returned" =>
       \/ Len(rounds) = 0
       \/ ~HasToolUse(LastRound)
       \/ ~LastRoundNonEmpty
       \/ tool_calls >= max_tool_calls

C20_Witness ==
  /\ Len(rounds) = 2
  /\ Len(rounds[1]) = 2
  /\ rounds[1][1].type = "tool_use"
  /\ rounds[1][2].type = "text"
  /\ results[1] # ""

====
